---- MODULE Spec2Model ----
(***************************************************************************)
(* A model of midi2Tiles' pianoTileCreator.py: the PianoTileCreator        *)
(* (constructor, loadMidiFile, init_keys, render) and the 88 KB_key        *)
(* objects with their falling tiles (createTiles, update).                 *)
(*                                                                         *)
(* Numbers.  The program computes pixel positions and seconds in floating  *)
(* point.  The model computes the same expressions exactly, in integers:   *)
(*   - a vertical pixel value or a number of seconds v is held as          *)
(*     v * YDen;                                                           *)
(*   - a horizontal pixel value v is held as v * XDen;                     *)
(*   - KB_ratio is held as the numerator of a fraction over RatioDen.      *)
(* The input sets below keep every division of the program exact in these  *)
(* units (ExactArithmetic states it), so the model is the program's        *)
(* arithmetic without floating point rounding.                             *)
(*                                                                         *)
(* Left out: the opacity of the rectangles (showKeyVelocity and the notes'  *)
(* velocity only set alpha), video_dpi, the top line of the keyboard, and  *)
(* the progress and verbose output.                                       *)
(***************************************************************************)
EXTENDS Integers, Sequences, FiniteSets, TLC

\* ------------------------------------------------------------------ bounds
\* Note events start and end at ticks 0..MaxTick.
MaxTick == 3
\* A parsed MIDI file holds at most MaxNotes note events.
MaxNotes == 2
\* video_width ranges over 1..MaxWidth in the keyboard-layout specification.
MaxWidth == 3
\* KB_ratio ranges over the fractions n/RatioDen, n in -1..RatioDen+1.
RatioDen == 2

\* --------------------------------------------------------- program constants
\* range(52): the white keys.
NumWhiteKeys == 52
\* range(51): the positions that may hold a black key.
NumBlackSlots == 51
\* midi_num = 21 + i, and the lower end of the pitch check.
FirstMidiNum == 21
\* The upper end of the pitch check.
LastMidiNum == 108
\* range(0, int(total_duration * vid_fps) + 2).
FramePad == 2
\* 22.15 (the width of a white key in the pattern's unit), times 100.
WhiteKeyUnit == 2215
\* 11 (the width of a black key in the pattern's unit), times 100.
BlackKeyUnit == 1100
\* 80 and 126.27, times 100: black_key_height = kb_top * 80 / 126.27.
BlackHeightNum == 8000
BlackHeightDen == 12627
\* black_key_pattern, times 100.
black_key_pattern == <<1669, 0, 1397, 1679, 0, 1283, 1476>>

\* ------------------------------------------------------------------- units
\* Vertical pixels and seconds are held times YDen: a multiple of RatioDen
\* (kb_top), of every ticks_per_sec and vid_fps of the inputs (4), and of
\* 126.27 * 100 (the black keys' height).
YDen == 4 * RatioDen * BlackHeightDen
\* Horizontal pixels are held times XDen = 52 * 22.15 * 100.
XDen == NumWhiteKeys * WhiteKeyUnit

\* num / den in the units of YDen.
Px(num, den) == (num * YDen) \div den

Max(a, b) == IF a >= b THEN a ELSE b

\* ------------------------------------------------------------------ inputs
Widths == 1..MaxWidth
Heights == {2}
FpsSet == {2}
KBRatios == (0 - 1)..(RatioDen + 1)
TileVelocities == {4}
KeyColors == {"green"}
\* ticks_per_beat and the first tempo of the file: ticks_per_sec is 4, and
\* with 2 frames per second a frame is 2 ticks: even ticks fall on a frame,
\* odd ticks between two frames.
TicksPerBeat == {2}
Tempos == {120}

\* The miditoolkit Notes of pitch in P: start < end, both in 0..MaxTick.
NotesOf(P) ==
  {n \in [pitch : P, start : 0..MaxTick, end : 0..MaxTick] : n.start < n.end}

\* Sequences of at most n elements of S.
RECURSIVE SeqsUpTo(_, _)
SeqsUpTo(S, n) ==
  IF n = 0 THEN {<<>>}
  ELSE LET shorter == SeqsUpTo(S, n - 1)
       IN  shorter \cup {Append(s, e) : s \in {t \in shorter : Len(t) = n - 1}, e \in S}

\* A parsed file: midi_obj.instruments' notes in the order the loop of
\* loadMidiFile extends all_notes with them.  The listing order matters only
\* between notes of equal (start, pitch): sorted() is stable.  The files are
\* listed by non-decreasing (pitch, start), which leaves every order of such
\* notes to the file and the whole ordering by (start, -pitch) to sorted().
ListedBefore(a, b) ==
  a.pitch < b.pitch \/ (a.pitch = b.pitch /\ a.start <= b.start)

NoteLists(S) ==
  {s \in SeqsUpTo(S, MaxNotes) :
     \A i \in 1..(Len(s) - 1) : ListedBefore(s[i], s[i + 1])}

\* The files that are rendered: notes on a sharp key (A#0) and on the last
\* key (C8), at every pair of ticks.
RenderPitches == {FirstMidiNum + 1, LastMidiNum}
RenderFiles == NoteLists(NotesOf(RenderPitches))

\* The files whose tiles are followed tick by tick: notes on middle C, at
\* every pair of ticks, rendered at 2 frames per second (a frame is 2 ticks)
\* and at 4 (a frame is 1 tick).
FallPitches == {60}
FallFiles == NoteLists(NotesOf(FallPitches))
FallFps == {2, 4}

\* The files that are only loaded: notes on the two ends of the keyboard, on
\* middle C and on the first pitch outside the keyboard on each side, all
\* starting at tick 0 and ending at tick 1 or 2.
RoutedPitches == {FirstMidiNum - 1, FirstMidiNum, 60, LastMidiNum, LastMidiNum + 1}
RoutedFiles == NoteLists({n \in NotesOf(RoutedPitches) : n.start = 0 /\ n.end <= 2})

VARIABLES
  pc,            \* where the program is: start, constructed, loaded, render, done, error
  err,           \* the exception that ended the program, or "none"
  writer,        \* self.writer exists
  fig,           \* self.fig exists
  conf,          \* the constructor's attributes (vid_*, kb_top, tile_velocity, ...)
  midi,          \* what loadMidiFile derived: all_notes, ticks_per_sec, ...
  all_key_objs,  \* self.all_key_objs: the KB_key objects
  frame,         \* render's loop variable i: the next frame
  grabbed        \* the calls of writer.grab_frame(), in order: the frame, and
                 \* the ticks the keys were updated with before it

vars == <<pc, err, writer, fig, conf, midi, all_key_objs, frame, grabbed>>

NoConf == [vid_width |-> 0, vid_height |-> 0, vid_fps |-> 0, kb_top |-> 0,
           kb_ratio |-> 0, has_kb_top |-> FALSE, tile_velocity |-> 0,
           key_color |-> ""]

NoMidi == [source |-> <<>>, all_notes |-> <<>>, ticks_per_sec |-> 0,
           total_duration |-> 0, ticks_per_frame |-> 0]

\* ------------------------------------------------------------ sorted()
\* Python's sorted(seq, key) is ascending and stable.  It is modelled by
\* SortSeq(seq, Less) with Less(a, b) being key(a) < key(b): SortSeq is an
\* insertion sort that moves an element left only past elements it is Less
\* than, so elements of equal key keep their order.

\* key=lambda n: (n.start, -n.pitch)
NoteKeyLess(a, b) ==
  \/ a.start < b.start
  \/ a.start = b.start /\ (0 - a.pitch) < (0 - b.pitch)

\* key=lambda k: k.get_x()
RectXLess(a, b) == a.x < b.x


\* ------------------------------------------------- PianoTileCreator.__init__
\* if KB_ratio >= 0 and KB_ratio < 1
KBRatioValid(KB_ratio) == KB_ratio >= 0 /\ KB_ratio < RatioDen

\* self.kb_top = KB_ratio * self.vid_height
KbTop(KB_ratio, video_height) == Px(KB_ratio * video_height, RatioDen)

\* The constructor.  The writer and the figure are created first, the vid_*
\* attributes and key_color are set, and only then is KB_ratio checked: the
\* ValueError leaves kb_top, tile_velocity and all_key_objs
\* unset.
Construct(video_width, video_height, video_fps, KB_ratio, tile_velocity, key_color) ==
  /\ pc = "start"
  /\ writer' = TRUE
  /\ fig' = TRUE
  /\ IF KBRatioValid(KB_ratio)
     THEN /\ conf' = [vid_width |-> video_width, vid_height |-> video_height,
                      vid_fps |-> video_fps, kb_ratio |-> KB_ratio,
                      kb_top |-> KbTop(KB_ratio, video_height),
                      has_kb_top |-> TRUE, tile_velocity |-> tile_velocity,
                      key_color |-> key_color]
          /\ pc' = "constructed"
          /\ err' = "none"
     ELSE /\ conf' = [NoConf EXCEPT !.vid_width = video_width,
                                    !.vid_height = video_height,
                                    !.vid_fps = video_fps,
                                    !.kb_ratio = KB_ratio,
                                    !.key_color = key_color]
          /\ pc' = "error"
          /\ err' = "ValueError"
  /\ UNCHANGED <<midi, all_key_objs, frame, grabbed>>

\* ------------------------------------------------------ KB_key.createTiles
\* One tile of a key, from note n.  A Rectangle is its x, y, width, height
\* and facecolor; in_axes says whether it is among the patches of the axes
\* (add_patch puts it there, remove takes it out).
CreateTile(key_rect, n, c, m) ==
  LET start_y_pos == Px(n.start * c.tile_velocity, m.ticks_per_sec) + c.kb_top
      end_y_pos == Px(n.end * c.tile_velocity, m.ticks_per_sec) + c.kb_top
  IN  [state |-> 0,
       rect |-> [x |-> key_rect.x, y |-> start_y_pos,
                 width |-> key_rect.width, height |-> end_y_pos - start_y_pos,
                 facecolor |-> c.key_color, in_axes |-> FALSE],
       start_y_pos |-> start_y_pos,
       initial_w |-> end_y_pos - start_y_pos]

\* self._tiles = [] and one tile appended per note of self._notes, in order.
createTiles(key, c, m) ==
  [key EXCEPT !.tiles = [t \in 1..Len(key.notes) |->
                           CreateTile(key.rect, key.notes[t], c, m)]]

\* ------------------------------------------------ PianoTileCreator.init_keys
white_key_width(c) == (c.vid_width * XDen) \div NumWhiteKeys

black_key_width(c) == (white_key_width(c) * BlackKeyUnit) \div WhiteKeyUnit

black_key_height(c) == (c.kb_top * BlackHeightNum) \div BlackHeightDen

\* Variant of black_key_offset: the pattern is read one place further on.
black_key_offset_Shifted(x, c) ==
  (black_key_pattern[((x + 1) % Len(black_key_pattern)) + 1] * white_key_width(c))
     \div WhiteKeyUnit

\* black_key_pattern[x % len(black_key_pattern)], scaled by white_key_width / 22.15
black_key_offset(x, c) ==
  (black_key_pattern[(x % Len(black_key_pattern)) + 1] * white_key_width(c))
     \div WhiteKeyUnit

\* for x in range(52): the white keys' rectangles, added to the axes.
WhiteKeyRects(c) ==
  [i \in 1..NumWhiteKeys |->
     [x |-> (i - 1) * white_key_width(c), y |-> 0,
      width |-> white_key_width(c), height |-> c.kb_top,
      facecolor |-> "white", in_axes |-> TRUE]]

\* if black_key_pattern[x % len(black_key_pattern)]: a zero entry is no key.
HasBlackKey(x, c) == black_key_offset(x, c) # 0

\* for x in range(51): the black keys' rectangles, added to the axes.
BlackKeySlots(c) ==
  SelectSeq([i \in 1..NumBlackSlots |-> i - 1], LAMBDA x : HasBlackKey(x, c))

BlackRectsAt(slots, c) ==
  [i \in 1..Len(slots) |->
     [x |-> slots[i] * white_key_width(c) + black_key_offset(slots[i], c),
      y |-> c.kb_top - black_key_height(c),
      width |-> black_key_width(c), height |-> black_key_height(c),
      facecolor |-> "black", in_axes |-> TRUE]]

BlackKeyRects(c) == BlackRectsAt(BlackKeySlots(c), c)

\* Variant of SortedKeyRects: the list is left in the order it was built in,
\* the white keys and then the black keys.
SortedKeyRects_Unsorted(rects) == rects

\* all_key_rects = sorted(all_key_rects, key=lambda k: k.get_x())
SortedKeyRects(rects) == SortSeq(rects, RectXLess)

\* all_key_rects: the white keys, then the black keys, then sorted by x.
all_key_rects(c) == SortedKeyRects(WhiteKeyRects(c) \o BlackKeyRects(c))

\* The KB_key made for the i-th rectangle (i from 0), with notes=[]: its
\* constructor ends with createTiles().  The key's copies of kb_top,
\* tile_velocity, ticks_per_sec, video_height and key_color are the creator's
\* values, which never change afterwards: the model reads them from conf and
\* midi.
NewKey(i, k, c, m) ==
  createTiles([midi_num |-> FirstMidiNum + i, rect |-> k,
               isSharp |-> k.width < white_key_width(c),
               notes |-> <<>>, tiles |-> <<>>], c, m)

\* self.all_key_objs = [KB_key(...) for i, k in enumerate(all_key_rects)]
KeysOf(rects, c, m) == [i \in 1..Len(rects) |-> NewKey(i - 1, rects[i], c, m)]

init_keys(c, m) == KeysOf(all_key_rects(c), c, m)

\* ---------------------------------------------- PianoTileCreator.loadMidiFile
\* Variant of PitchInRange: the lowest key's pitch is left out.
PitchInRange_Above(n) == n.pitch > FirstMidiNum /\ n.pitch <= LastMidiNum

\* if n.pitch >= 21 and n.pitch <= 108
PitchInRange(n) == n.pitch >= FirstMidiNum /\ n.pitch <= LastMidiNum

\* self.all_key_objs[n.pitch-21]: the list index (from 0) of the note's key.
KeyIndex(n) == n.pitch - FirstMidiNum

\* for n in self.all_notes: ... ._notes.append(n), from the j-th note on.
RECURSIVE Distribute(_, _, _)
Distribute(keys, notes, j) ==
  IF j > Len(notes) THEN keys
  ELSE LET n == notes[j]
           next == IF PitchInRange(n)
                   THEN [keys EXCEPT ![KeyIndex(n) + 1].notes = Append(@, n)]
                   ELSE keys
       IN  Distribute(next, notes, j + 1)

\* self.all_notes = sorted(self.all_notes, key=lambda n: (n.start, -n.pitch))
SortedNotes(notes) == SortSeq(notes, NoteKeyLess)

\* self.ticks_per_sec = ticks_per_beat * tempo_changes[0].tempo / 60
TicksPerSec(ticks_per_beat, tempo) == (ticks_per_beat * tempo) \div 60

\* What loadMidiFile derives from the file before init_fig.  all_notes[-1] is
\* the last note of the sorted list.
LoadedMidi(notes, sorted, tps, c) ==
  [source |-> notes, all_notes |-> sorted, ticks_per_sec |-> tps,
   total_duration |-> IF Len(sorted) = 0 THEN 0 ELSE Px(sorted[Len(sorted)].end, tps),
   ticks_per_frame |-> IF Len(sorted) = 0 THEN 0 ELSE tps \div c.vid_fps]

\* for x in self.all_key_objs: x.createTiles()
WithTiles(keys, c, m) == [i \in 1..Len(keys) |-> createTiles(keys[i], c, m)]

\* init_fig() (init_keys), the distribution of the notes, and createTiles.
LoadedKeys(c, m) == WithTiles(Distribute(init_keys(c, m), m.all_notes, 1), c, m)

\* The end of loadMidiFile, from init_fig on.
KeysLoaded(m) ==
  /\ midi' = m
  /\ all_key_objs' = LoadedKeys(conf, m)
  /\ pc' = "loaded"
  /\ UNCHANGED err

\* loadMidiFile on a parsed file.  With no note at all, all_notes[-1] raises
\* IndexError after all_notes and ticks_per_sec are set and before init_fig.
loadMidiFile(notes, ticks_per_beat, tempo) ==
  /\ pc = "constructed"
  /\ IF Len(notes) = 0
     THEN /\ midi' = LoadedMidi(notes, SortedNotes(notes), TicksPerSec(ticks_per_beat, tempo), conf)
          /\ pc' = "error"
          /\ err' = "IndexError"
          /\ UNCHANGED all_key_objs
     ELSE KeysLoaded(LoadedMidi(notes, SortedNotes(notes), TicksPerSec(ticks_per_beat, tempo), conf))
  /\ UNCHANGED <<writer, fig, conf, frame, grabbed>>


\* ------------------------------------------------------------ KB_key.update
\* Variant of Fallen: the tiles fall twice as fast.
Fallen_Double(tick, c, m) == Px(2 * c.tile_velocity * tick, m.ticks_per_sec)

\* self._tile_velocity * tick / self._ticks_per_sec
Fallen(tick, c, m) == Px(c.tile_velocity * tick, m.ticks_per_sec)

\* Variant of MovedTile: the height is set without max(0, ...).
MovedTile_NoClamp(tile, tick, c, m) ==
  IF tile.state <= 1
  THEN IF tile.rect.y <= c.kb_top
       THEN [tile EXCEPT !.rect.height =
               tile.initial_w - c.kb_top + tile.start_y_pos - Fallen(tick, c, m)]
       ELSE [tile EXCEPT !.rect.y = tile.start_y_pos - Fallen(tick, c, m)]
  ELSE tile

\* Variant of MovedTile: the falling edge is placed from the far end of the
\* tile, start_y_pos + initial_w, instead of start_y_pos.
MovedTile_FromEnd(tile, tick, c, m) ==
  IF tile.state <= 1
  THEN IF tile.rect.y <= c.kb_top
       THEN [tile EXCEPT !.rect.height =
               Max(0, tile.initial_w - c.kb_top + tile.start_y_pos - Fallen(tick, c, m))]
       ELSE [tile EXCEPT !.rect.y = tile.start_y_pos + tile.initial_w - Fallen(tick, c, m)]
  ELSE tile

\* "move position": a tile in state 0 or 1 whose rectangle's y is at or below
\* kb_top gets a new height, any other a new y; a tile in state 2 is left alone.
MovedTile(tile, tick, c, m) ==
  IF tile.state <= 1
  THEN IF tile.rect.y <= c.kb_top
       THEN [tile EXCEPT !.rect.height =
               Max(0, tile.initial_w - c.kb_top + tile.start_y_pos - Fallen(tick, c, m))]
       ELSE [tile EXCEPT !.rect.y = tile.start_y_pos - Fallen(tick, c, m)]
  ELSE tile

\* Variant of SteppedTile: the second branch is taken for every state but 1,
\* an "else" in place of "elif state == 0".
SteppedTile_Else(tile, c) ==
  IF tile.state = 1
  THEN IF tile.rect.height <= 0
       THEN [tile EXCEPT !.rect.in_axes = FALSE, !.state = 2]
       ELSE tile
  ELSE IF tile.rect.y <= c.vid_height * YDen
       THEN [tile EXCEPT !.rect.in_axes = TRUE, !.state = 1]
       ELSE tile

\* Variant of SteppedTile: a tile appears only once its y is below
\* video_height, "<" in place of "<=".
SteppedTile_Strict(tile, c) ==
  IF tile.state = 1
  THEN IF tile.rect.height <= 0
       THEN [tile EXCEPT !.rect.in_axes = FALSE, !.state = 2]
       ELSE tile
  ELSE IF tile.state = 0
       THEN IF tile.rect.y < c.vid_height * YDen
            THEN [tile EXCEPT !.rect.in_axes = TRUE, !.state = 1]
            ELSE tile
       ELSE tile

\* Variant of SteppedTile: a tile in state 0 whose y is at or below
\* video_height is set to state 2 at once.
SteppedTile_Skip(tile, c) ==
  IF tile.state = 1
  THEN IF tile.rect.height <= 0
       THEN [tile EXCEPT !.rect.in_axes = FALSE, !.state = 2]
       ELSE tile
  ELSE IF tile.state = 0
       THEN IF tile.rect.y <= c.vid_height * YDen
            THEN [tile EXCEPT !.rect.in_axes = FALSE, !.state = 2]
            ELSE tile
       ELSE tile

\* Variant of SteppedTile: the step to state 2 leaves the rectangle in the
\* axes, rect.remove() is not called.
SteppedTile_NoRemove(tile, c) ==
  IF tile.state = 1
  THEN IF tile.rect.height <= 0
       THEN [tile EXCEPT !.state = 2]
       ELSE tile
  ELSE IF tile.state = 0
       THEN IF tile.rect.y <= c.vid_height * YDen
            THEN [tile EXCEPT !.rect.in_axes = TRUE, !.state = 1]
            ELSE tile
       ELSE tile

\* "state transition": 1 -> 2 (and rect.remove()) when the height is <= 0,
\* else 0 -> 1 (and add_patch(rect)) when y is <= video_height.
SteppedTile(tile, c) ==
  IF tile.state = 1
  THEN IF tile.rect.height <= 0
       THEN [tile EXCEPT !.rect.in_axes = FALSE, !.state = 2]
       ELSE tile
  ELSE IF tile.state = 0
       THEN IF tile.rect.y <= c.vid_height * YDen
            THEN [tile EXCEPT !.rect.in_axes = TRUE, !.state = 1]
            ELSE tile
       ELSE tile

\* One pass of the loop body for one tile.
UpdateTile(tile, tick, c, m) == SteppedTile(MovedTile(tile, tick, c, m), c)

\* Variant of TileAt: every pass of the loop reads the first tile.
TileAt_First(tiles, t) == tiles[1]

\* self._tiles[t], t from 1 here.
TileAt(tiles, t) == tiles[t]

\* Variant of IsCurrentNote: the note still counts at its end tick.
IsCurrentNote_Closed(n, tick) == n.start <= tick /\ n.end >= tick

\* filter(lambda n: n.start <= tick and n.end > tick, self._notes)
IsCurrentNote(n, tick) == n.start <= tick /\ n.end > tick

current_note(key, tick) == SelectSeq(key.notes, LAMBDA n : IsCurrentNote(n, tick))

\* "update piano display": the key's own rectangle.
UpdatedKeyRect(key, tick, c) ==
  LET cur == current_note(key, tick)
  IN  IF Len(cur) # 0
      THEN [key.rect EXCEPT !.facecolor = c.key_color]
      ELSE [key.rect EXCEPT !.facecolor = IF key.isSharp THEN "black" ELSE "white"]

update(key, tick, c, m) ==
  [key EXCEPT !.tiles = [t \in 1..Len(key.tiles) |->
                           UpdateTile(TileAt(key.tiles, t), tick, c, m)],
              !.rect = UpdatedKeyRect(key, tick, c)]

\* --------------------------------------------------- PianoTileCreator.render
\* Variant of FrameCount: one frame less.
FrameCount_Short(c, m) == ((m.total_duration * c.vid_fps) \div YDen) + FramePad - 1

\* int(self.total_duration * self.vid_fps) + 2
FrameCount(c, m) == ((m.total_duration * c.vid_fps) \div YDen) + FramePad

\* tick = i * self.ticks_per_frame
TickOf(i, m) == i * m.ticks_per_frame

\* One pass of the body of render's loop, for i = frame: every key is updated
\* with the frame's tick, then the frame is grabbed; the loop ends after the
\* pass for the last i.  The range is never empty: it has FramePad frames for
\* a duration of 0.  The program is single threaded.
RenderFrame ==
  /\ pc \in {"loaded", "render"}
  /\ frame < FrameCount(conf, midi)
  /\ all_key_objs' = [k \in 1..Len(all_key_objs) |->
                        update(all_key_objs[k], TickOf(frame, midi), conf, midi)]
  /\ grabbed' = Append(grabbed, [frame |-> frame,
                                 ticks |-> {TickOf(frame, midi) : k \in 1..Len(all_key_objs)}])
  /\ frame' = frame + 1
  /\ pc' = IF frame + 1 < FrameCount(conf, midi) THEN "render" ELSE "done"
  /\ UNCHANGED <<err, writer, fig, conf, midi>>

\* ----------------------------------------------------------- specifications
Init ==
  /\ pc = "start"
  /\ err = "none"
  /\ writer = FALSE
  /\ fig = FALSE
  /\ conf = NoConf
  /\ midi = NoMidi
  /\ all_key_objs = <<>>
  /\ frame = 0
  /\ grabbed = <<>>

\* The creator is made with some configuration (one video width).
NewCreator ==
  \E h \in Heights, fps \in FpsSet, r \in KBRatios, v \in TileVelocities, col \in KeyColors :
       Construct(MaxWidth, h, fps, r, v, col)

\* A file is loaded.
LoadFile ==
  \E notes \in RenderFiles, tpb \in TicksPerBeat, tempo \in Tempos :
       loadMidiFile(notes, tpb, tempo)

Next == NewCreator \/ LoadFile \/ RenderFrame

Spec == Init /\ [][Next]_vars

\* The keyboard and the routing of the notes: every video width, and files
\* with notes of pitches inside and outside the keyboard.
NewCreatorAnyWidth ==
  \E w \in Widths, h \in Heights, fps \in FpsSet, r \in KBRatios, v \in TileVelocities, col \in KeyColors :
       Construct(w, h, fps, r, v, col)

LoadRoutedFile ==
  \E notes \in RoutedFiles, tpb \in TicksPerBeat, tempo \in Tempos :
       loadMidiFile(notes, tpb, tempo)

NextKeys == NewCreatorAnyWidth \/ LoadRoutedFile

SpecKeys == Init /\ [][NextKeys]_vars

\* The fall of the tiles of one key: both frame rates, and files with notes
\* of one pitch.
NewCreatorAnyFps ==
  \E h \in Heights, fps \in FallFps, r \in KBRatios, v \in TileVelocities, col \in KeyColors :
       Construct(MaxWidth, h, fps, r, v, col)

LoadFallFile ==
  \E notes \in FallFiles, tpb \in TicksPerBeat, tempo \in Tempos :
       loadMidiFile(notes, tpb, tempo)

NextFall == NewCreatorAnyFps \/ LoadFallFile \/ RenderFrame

SpecFall == Init /\ [][NextFall]_vars

\* Every division of the model is exact.
ExactArithmetic ==
  /\ conf.has_kb_top => conf.kb_top * RatioDen = conf.kb_ratio * conf.vid_height * YDen
  /\ pc \in {"loaded", "render", "done"} =>
       /\ midi.ticks_per_sec * 60 \in {b * t : b \in TicksPerBeat, t \in Tempos}
       /\ midi.ticks_per_frame * conf.vid_fps = midi.ticks_per_sec
       /\ YDen % midi.ticks_per_sec = 0
       /\ white_key_width(conf) * NumWhiteKeys = conf.vid_width * XDen
       /\ black_key_width(conf) * WhiteKeyUnit = white_key_width(conf) * BlackKeyUnit
       /\ black_key_height(conf) * BlackHeightDen = conf.kb_top * BlackHeightNum


\* -------------------------------------------------------------- properties
\* The keys and frames a formula speaks of.
KeyIds == 1..Len(all_key_objs)
TileIds(k) == 1..Len(all_key_objs[k].tiles)
\* Some frame has been rendered; the last one was frame - 1.
SomeFrameDone == pc \in {"render", "done"} /\ frame >= 1
LastTick == (frame - 1) * midi.ticks_per_frame

\* The tile made from the t-th note of key k, as createTiles leaves it.
FreshTile(k, t) ==
  CreateTile(all_key_objs[k].rect, all_key_objs[k].notes[t], conf, midi)

\* A tile after update has been called for the frames 0..i, in order.
RECURSIVE Replayed(_, _)
Replayed(tile, i) ==
  IF i < 0 THEN tile
  ELSE UpdateTile(Replayed(tile, i - 1), TickOf(i, midi), conf, midi)

\* A key after update has been called for the frames 0..i, in order.
RECURSIVE ReplayedKey(_, _)
ReplayedKey(key, i) ==
  IF i < 0 THEN key
  ELSE update(ReplayedKey(key, i - 1), TickOf(i, midi), conf, midi)

\* What is drawn of a tile: its phase, its y and its height.
Shown(tile) == <<tile.state, tile.rect.y, tile.rect.height>>

\* C1: after the updates for the frames 0..k, every tile's (phase, y, height)
\* is what a single update with the tick of frame k gives on a freshly
\* created tile: the tile is a function of the tick, not of the history.
C1_TileIsFunctionOfTick ==
  SomeFrameDone =>
    \A k \in KeyIds : \A t \in TileIds(k) :
      Shown(all_key_objs[k].tiles[t])
        = Shown(UpdateTile(FreshTile(k, t), LastTick, conf, midi))

\* A step of the render loop leaves every DONE tile DONE.
DoneKept ==
  pc \in {"loaded", "render"} =>
    (\A k \in KeyIds : \A t \in TileIds(k) :
       all_key_objs[k].tiles[t].state = 2 => all_key_objs'[k].tiles[t].state = 2)

\* C2: a tile that is DONE (state 2) is DONE after every later update of the
\* render loop.
C2_DoneStaysDone == [][DoneKept]_vars

\* A tile that was DONE before the last update, and has been updated again.
C2_Witness ==
  /\ pc \in {"render", "done"}
  /\ frame >= 2
  /\ \E k \in KeyIds : \E t \in TileIds(k) :
       /\ Replayed(FreshTile(k, t), frame - 2).state = 2
       /\ all_key_objs[k].tiles[t].state = 2

\* C3: the drawn height of every tile is >= 0, at creation and after every
\* update (every note has end > start, and tile_velocity is positive).
C3_HeightNonNegative ==
  \A k \in KeyIds : \A t \in TileIds(k) : all_key_objs[k].tiles[t].rect.height >= 0

\* A tile whose height formula is negative at the last tick, drawn with height 0.
C3_Witness ==
  /\ SomeFrameDone
  /\ \E k \in KeyIds : \E t \in TileIds(k) :
       LET tile == all_key_objs[k].tiles[t]
       IN  /\ tile.initial_w > 0
           /\ tile.initial_w - conf.kb_top + tile.start_y_pos
                - Px(conf.tile_velocity * LastTick, midi.ticks_per_sec) < 0
           /\ tile.rect.height = 0

\* The number of places of seq that hold e.
Occurrences(seq, e) == Cardinality({i \in 1..Len(seq) : seq[i] = e})

\* C4: after loadMidiFile, a note of pitch p in [21,108] is assigned to the key
\* at index p-21 (MIDI number p) and to no other key, a note of pitch outside
\* [21,108] to no key, and every key has one tile per note assigned to it.
C4_NotesRoutedByPitch ==
  pc = "loaded" =>
    /\ Len(all_key_objs) = 88
    /\ \A k \in KeyIds :
         LET key == all_key_objs[k]
         IN  /\ key.midi_num = 21 + (k - 1)
             /\ key.notes = SelectSeq(midi.all_notes, LAMBDA n : n.pitch = key.midi_num)
             /\ Len(key.tiles) = Len(key.notes)
             /\ \A t \in 1..Len(key.tiles) :
                  key.tiles[t].rect.height * midi.ticks_per_sec
                    = (key.notes[t].end - key.notes[t].start) * conf.tile_velocity * YDen
    /\ \A j \in 1..Len(midi.all_notes) :
         LET n == midi.all_notes[j]
             holders == {k \in KeyIds : Occurrences(all_key_objs[k].notes, n) > 0}
         IN  IF n.pitch >= 21 /\ n.pitch <= 108
             THEN holders = {n.pitch - 21 + 1}
             ELSE holders = {}

\* A file with a note of pitch 109 and a note of pitch 108: the last key has
\* the second and its tile, and no key has the first.
C4_Witness ==
  /\ pc = "loaded"
  /\ Len(midi.all_notes) = 2
  /\ \E j \in 1..Len(midi.all_notes) : midi.all_notes[j].pitch = 109
  /\ Len(all_key_objs[88].notes) = 1
  /\ all_key_objs[88].notes[1].pitch = 108
  /\ Len(all_key_objs[88].tiles) = 1

\* C5: a KB_ratio outside [0,1) ends the constructor in an error, raised
\* before any frame is produced and before the figure, the writer or a key
\* exists; a KB_ratio in [0,1) raises nothing and kb_top is KB_ratio * video_height.
C5_ConfigErrorBeforeAnyState ==
  /\ (pc # "start" /\ (conf.kb_ratio < 0 \/ conf.kb_ratio >= RatioDen)) =>
       (/\ err = "ValueError"
        /\ grabbed = <<>>
        /\ ~fig /\ ~writer /\ all_key_objs = <<>>)
  /\ (pc # "start" /\ conf.kb_ratio >= 0 /\ conf.kb_ratio < RatioDen) =>
       (/\ err # "ValueError"
        /\ conf.kb_top * RatioDen = conf.kb_ratio * conf.vid_height * YDen)

\* C6: a file with no note event is rejected by an error of its own, not by
\* the failure of all_notes[-1], and no key is built and no frame produced.
C6_EmptyFileRejectedExplicitly ==
  (pc \notin {"start", "constructed"} /\ conf.has_kb_top /\ midi.source = <<>>) =>
    /\ pc = "error"
    /\ err = "EmptyInput"
    /\ all_key_objs = <<>>
    /\ grabbed = <<>>

\* Two rectangles share some area.
Overlap(a, b) ==
  /\ a.x < b.x + b.width /\ b.x < a.x + a.width
  /\ a.y < b.y + b.height /\ b.y < a.y + a.height

KeyRect(k) == all_key_objs[k].rect

\* C7 as stated: in MIDI-number order the keys' x-positions increase strictly
\* and no key's rectangle overlaps its left or right neighbour's.
C7_NeighboursDisjoint ==
  pc = "loaded" =>
    \A k \in 1..(Len(all_key_objs) - 1) :
      /\ KeyRect(k).x < KeyRect(k + 1).x
      /\ ~Overlap(KeyRect(k), KeyRect(k + 1))

\* C7 as amended: the x-positions increase strictly, and no key's rectangle
\* overlaps that of a key of its own kind (natural or sharp) up to three
\* places away, which covers the nearest one on each side; with kb_top > 0 a
\* sharp key's rectangle overlaps both its neighbours', which are naturals.
C7_SameKindDisjoint ==
  pc = "loaded" =>
    /\ Len(all_key_objs) = 88
    /\ \A k \in 1..(Len(all_key_objs) - 1) : KeyRect(k).x < KeyRect(k + 1).x
    /\ \A k \in KeyIds : \A d \in 1..3 :
         (k + d <= Len(all_key_objs) /\ all_key_objs[k].isSharp = all_key_objs[k + d].isSharp)
           => ~Overlap(KeyRect(k), KeyRect(k + d))
    /\ \A k \in KeyIds :
         (all_key_objs[k].isSharp /\ conf.kb_top > 0) =>
           /\ k > 1 /\ k < Len(all_key_objs)
           /\ ~all_key_objs[k - 1].isSharp /\ ~all_key_objs[k + 1].isSharp
           /\ Overlap(KeyRect(k), KeyRect(k - 1))
           /\ Overlap(KeyRect(k), KeyRect(k + 1))

\* A keyboard of positive height, a video wider than 1, and a sharp key
\* between two naturals.
C7_Witness ==
  /\ pc = "loaded"
  /\ conf.kb_top > 0
  /\ conf.vid_width > 1
  /\ all_key_objs[2].isSharp /\ ~all_key_objs[1].isSharp /\ ~all_key_objs[3].isSharp

\* C8: render grabs exactly floor(total_duration * video_fps) + 2 frames; the
\* i-th grab (i from 0) comes after every key was updated with the tick
\* i * ticks_per_frame, frames are grabbed in order without gap or repeat, and
\* the loop ends exactly when that many frames are grabbed.
C8_FramesInOrder ==
  pc \in {"loaded", "render", "done"} =>
    LET frame_count == ((midi.total_duration * conf.vid_fps) \div YDen) + 2
    IN  /\ Len(grabbed) = frame
        /\ Len(grabbed) <= frame_count
        /\ \A j \in 1..Len(grabbed) :
             /\ grabbed[j].frame = j - 1
             /\ grabbed[j].ticks = {(j - 1) * midi.ticks_per_frame}
        /\ (pc = "done") <=> (Len(grabbed) = frame_count)

\* A render that has ended after three frames.
C8_Witness == pc = "done" /\ Len(grabbed) = 3

\* C9: after update(tick) a key has the highlight colour if and only if one
\* of its notes has start <= tick < end, and otherwise its idle colour, white
\* for a natural key and black for a sharp key.
C9_KeyHighlight ==
  SomeFrameDone =>
    \A k \in KeyIds :
      LET key == all_key_objs[k]
          sounding == \E i \in 1..Len(key.notes) :
                        key.notes[i].start <= LastTick /\ LastTick < key.notes[i].end
      IN  key.rect.facecolor = IF sounding THEN "green"
                               ELSE IF key.isSharp THEN "black" ELSE "white"

\* A sharp key that is highlighted, and a natural key with a note that is idle.
C9_Witness ==
  /\ SomeFrameDone
  /\ \E k \in KeyIds :
       /\ all_key_objs[k].isSharp
       /\ all_key_objs[k].rect.facecolor = "green"
  /\ \E k \in KeyIds :
       /\ ~all_key_objs[k].isSharp
       /\ Len(all_key_objs[k].notes) > 0
       /\ all_key_objs[k].rect.facecolor = "white"

\* Key k with the t-th of its notes only, as loadMidiFile would leave it.
KeyWithOnly(k, t) ==
  createTiles([all_key_objs[k] EXCEPT !.notes = <<all_key_objs[k].notes[t]>>],
              conf, midi)

\* C10: every tile of a key is, at every frame, what it would be if its note
\* were the only note of the key, and no error is raised.
C10_TilesIndependent ==
  pc \in {"loaded", "render", "done"} =>
    /\ err = "none"
    /\ \A k \in KeyIds : \A t \in TileIds(k) :
         all_key_objs[k].tiles[t]
           = ReplayedKey(KeyWithOnly(k, t), frame - 1).tiles[1]

\* Two notes of one pitch that overlap without one holding the other, as
\* [0,500] and [200,700] do, and both their tiles ACTIVE after a frame.
C10_Witness ==
  /\ SomeFrameDone
  /\ \E k \in KeyIds :
       LET key == all_key_objs[k]
       IN  /\ Len(key.notes) = 2
           /\ key.notes[1].start < key.notes[2].start
           /\ key.notes[2].start < key.notes[1].end
           /\ key.notes[1].end < key.notes[2].end
           /\ key.tiles[1].state = 1
           /\ key.tiles[2].state = 1

\* ------------------------------------------------------- the fall of a tile
\* The note of the t-th tile of key k, and the tile.
NoteOf(k, t) == all_key_objs[k].notes[t]
TileOf(k, t) == all_key_objs[k].tiles[t]

\* The y a distance of `ticks` ticks above kb_top, and the distance fallen at
\* the last tick: ticks / ticks_per_sec * tile_velocity.
Above(ticks) == conf.kb_top + Px(ticks * conf.tile_velocity, midi.ticks_per_sec)
LastFallen == Px(LastTick * conf.tile_velocity, midi.ticks_per_sec)

\* C11 as stated: while a tile's leading (bottom) edge is above kb_top, after
\* the update at time t it is at kb_top + (end/ticks_per_sec) * tile_velocity
\* - tile_velocity * t, and the tile's length is (end - start)/ticks_per_sec
\* * tile_velocity.
C11_LeadingEdgeFromEnd ==
  SomeFrameDone =>
    \A k \in KeyIds : \A t \in TileIds(k) :
      TileOf(k, t).rect.y > conf.kb_top =>
        /\ TileOf(k, t).rect.y = Above(NoteOf(k, t).end) - LastFallen
        /\ TileOf(k, t).rect.height = Above(NoteOf(k, t).end) - Above(NoteOf(k, t).start)

\* C11 as amended: a tile's leading (bottom) edge is above kb_top after the
\* update at time t exactly when t is before the note's start, and then it is
\* at kb_top + (start/ticks_per_sec) * tile_velocity - tile_velocity * t and
\* the tile's length is (end - start)/ticks_per_sec * tile_velocity: the edge
\* depends on the start and on t only, not on the note's duration.
C11_LeadingEdgeFromStart ==
  SomeFrameDone =>
    \A k \in KeyIds : \A t \in TileIds(k) :
      /\ (TileOf(k, t).rect.y > conf.kb_top) <=> (LastTick < NoteOf(k, t).start)
      /\ TileOf(k, t).rect.y > conf.kb_top =>
           /\ TileOf(k, t).rect.y = Above(NoteOf(k, t).start) - LastFallen
           /\ TileOf(k, t).rect.height = Above(NoteOf(k, t).end) - Above(NoteOf(k, t).start)

\* A tile that has fallen for some time and is still above kb_top.
C11_Witness ==
  /\ SomeFrameDone
  /\ LastTick > 0
  /\ \E k \in KeyIds : \E t \in TileIds(k) :
       /\ TileOf(k, t).rect.y > conf.kb_top
       /\ TileOf(k, t).rect.y < TileOf(k, t).start_y_pos

\* initial_length - (t - top_edge_time) * tile_velocity, for the last tick as
\* t and top_edge_time = start / ticks_per_sec; negative once the tick is past
\* the note's end.
LengthLeft(n) ==
  (Above(n.end) - Above(n.start)) - (LastFallen - (Above(n.start) - conf.kb_top))

\* C12: at every frame whose tick is at or after the note's start, the first
\* such frame included, the tile's drawn height after the update is
\* max(0, initial_length - (t - top_edge_time) * tile_velocity).  (A DONE tile
\* has height 0, which is the formula's value from the note's end on.)
C12_HeightAtOrPastKbTop ==
  SomeFrameDone =>
    \A k \in KeyIds : \A t \in TileIds(k) :
      LastTick >= NoteOf(k, t).start =>
        TileOf(k, t).rect.height = Max(0, LengthLeft(NoteOf(k, t)))

\* C13: at every frame whose tick is at or after the note's start, the
\* tile's rectangle is at kb_top exactly after the update, never below it.
C13_ClippedAtKbTop ==
  SomeFrameDone =>
    \A k \in KeyIds : \A t \in TileIds(k) :
      LastTick >= NoteOf(k, t).start => TileOf(k, t).rect.y = conf.kb_top

\* C14: after each update a tile is PENDING (state 0, not in the axes) if and
\* only if its leading edge, kb_top + (start/ticks_per_sec) * tile_velocity
\* - tile_velocity * t, is still above video_height: it becomes ACTIVE at
\* exactly the first frame that leaves the edge at or below video_height.
C14_PendingIffAboveVideo ==
  SomeFrameDone =>
    \A k \in KeyIds : \A t \in TileIds(k) :
      /\ (TileOf(k, t).state = 0)
           <=> (Above(NoteOf(k, t).start) - LastFallen > conf.vid_height * YDen)
      /\ (TileOf(k, t).state = 0)
           <=> (TileOf(k, t).rect.y > conf.vid_height * YDen)
      /\ TileOf(k, t).state = 0 => ~TileOf(k, t).rect.in_axes

\* A tile that was PENDING after the frame before the last and is ACTIVE and
\* in the axes after the last.
C14_Witness ==
  /\ SomeFrameDone
  /\ frame >= 2
  /\ \E k \in KeyIds : \E t \in TileIds(k) :
       /\ Replayed(FreshTile(k, t), frame - 2).state = 0
       /\ TileOf(k, t).state = 1
       /\ TileOf(k, t).rect.in_axes

\* C15: a tile goes from ACTIVE to DONE at exactly the first frame whose tick
\* is at or after the note's end, where max(0, initial_length
\* - (t - top_edge_time) * tile_velocity) is 0: no tile is DONE at an earlier
\* tick, and a tile that was ACTIVE after the frame before is DONE after a
\* frame whose tick is at or after the end.
C15_DoneAtFirstFrameFromEnd ==
  SomeFrameDone =>
    \A k \in KeyIds : \A t \in TileIds(k) :
      /\ TileOf(k, t).state = 2 =>
           (LastTick >= NoteOf(k, t).end /\ LengthLeft(NoteOf(k, t)) <= 0)
      /\ (/\ frame >= 2
          /\ Replayed(FreshTile(k, t), frame - 2).state = 1
          /\ LastTick >= NoteOf(k, t).end) => TileOf(k, t).state = 2

\* The load leaves every tile in phase 0, and a step of the render loop takes
\* every tile's phase from 0 to 0 or 1, from 1 to 1 or 2, and from 2 to 2.
PhaseStepsInOrder ==
  /\ pc = "constructed" =>
       (\A k \in 1..Len(all_key_objs') : \A t \in 1..Len(all_key_objs'[k].tiles) :
          all_key_objs'[k].tiles[t].state = 0)
  /\ pc \in {"loaded", "render"} =>
       (\A k \in KeyIds : \A t \in TileIds(k) :
          /\ TileOf(k, t).state \in {0, 1, 2}
          /\ all_key_objs'[k].tiles[t].state
               \in {TileOf(k, t).state, TileOf(k, t).state + 1} \ {3})

\* C16: a tile is created PENDING, and an update call changes its phase by
\* PENDING -> ACTIVE or by ACTIVE -> DONE or not at all: never backwards,
\* never from PENDING to DONE, never by two steps in one call.
C16_PhaseOrder ==
  [][PhaseStepsInOrder]_vars

\* A tile that was ACTIVE after the frame before the last and is DONE after
\* the last, beside a tile of the same key that is still ACTIVE.
C16_Witness ==
  /\ SomeFrameDone
  /\ frame >= 2
  /\ \E k \in KeyIds : \E t, u \in TileIds(k) :
       /\ Replayed(FreshTile(k, t), frame - 2).state = 1
       /\ TileOf(k, t).state = 2
       /\ TileOf(k, u).state = 1

\* C17: when render has processed its last frame every tile of every key is
\* DONE and out of the axes.
C17_AllDoneAtEnd ==
  pc = "done" =>
    \A k \in KeyIds : \A t \in TileIds(k) :
      TileOf(k, t).state = 2 /\ ~TileOf(k, t).rect.in_axes

\* ------------------------------------------------------------ the keyboard
\* The pitch classes (MIDI number mod 12) of the sharp keys, C# D# F# G# A#,
\* and of the naturals E and B.
SharpClasses == {1, 3, 6, 8, 10}
ClassesEB == {4, 11}

\* C18: init_keys makes 88 keys, 52 naturals and 36 sharps, in keyboard order:
\* the k-th has MIDI number 20 + k and lies right of the one before, it is
\* sharp if and only if its MIDI number mod 12 is in {1, 3, 6, 8, 10}, and
\* the key after an E or a B is not sharp.
C18_KeyboardOrder ==
  pc = "loaded" =>
    /\ Len(all_key_objs) = 88
    /\ Cardinality({k \in KeyIds : ~all_key_objs[k].isSharp}) = 52
    /\ Cardinality({k \in KeyIds : all_key_objs[k].isSharp}) = 36
    /\ \A k \in KeyIds :
         /\ all_key_objs[k].midi_num = 20 + k
         /\ all_key_objs[k].isSharp <=> (all_key_objs[k].midi_num % 12 \in SharpClasses)
         /\ all_key_objs[k].isSharp <=> (KeyRect(k).facecolor = "black")
         /\ k > 1 => KeyRect(k - 1).x < KeyRect(k).x
         /\ (k > 1 /\ all_key_objs[k - 1].midi_num % 12 \in ClassesEB)
              => ~all_key_objs[k].isSharp

\* A keyboard wider than 1 with A#0 sharp, B0 and C1 side by side as
\* naturals, and C8 natural.
C18_Witness ==
  /\ pc = "loaded"
  /\ conf.vid_width > 1
  /\ all_key_objs[2].isSharp /\ all_key_objs[2].midi_num = 22
  /\ ~all_key_objs[3].isSharp /\ ~all_key_objs[4].isSharp
  /\ ~all_key_objs[88].isSharp /\ all_key_objs[88].midi_num = 108

\* -------------------------------------------------- tiles, keys and the axes
\* C19: at every frame whose tick is within a note of a key, start <= tick <
\* end, the key is highlighted and the note's tile is ACTIVE and in the axes
\* after the frame's update (KB_ratio is in [0,1) in every loaded state).
C19_TileActiveWhileSounding ==
  SomeFrameDone =>
    \A k \in KeyIds : \A t \in TileIds(k) :
      (NoteOf(k, t).start <= LastTick /\ LastTick < NoteOf(k, t).end) =>
        /\ KeyRect(k).facecolor = conf.key_color
        /\ TileOf(k, t).state = 1
        /\ TileOf(k, t).rect.in_axes

\* After a frame past the first, a key with a sounding note whose tile is
\* ACTIVE and an ended note whose tile is DONE.
C19_Witness ==
  /\ SomeFrameDone
  /\ LastTick > 0
  /\ \E k \in KeyIds : \E t, u \in TileIds(k) :
       /\ NoteOf(k, t).start <= LastTick /\ LastTick < NoteOf(k, t).end
       /\ TileOf(k, t).state = 1
       /\ KeyRect(k).facecolor = conf.key_color
       /\ NoteOf(k, u).end <= LastTick
       /\ TileOf(k, u).state = 2

\* A step of the render loop: before and after it a tile's rectangle is in the
\* axes exactly when the tile is ACTIVE; it enters the axes only with the
\* step 0 -> 1 and leaves them only with the step 1 -> 2; and every key keeps
\* the number of its tiles, one per note.
DrawnIffActive ==
  pc \in {"loaded", "render"} =>
    (\A k \in KeyIds :
       /\ Len(all_key_objs'[k].tiles) = Len(all_key_objs[k].tiles)
       /\ Len(all_key_objs[k].tiles) = Len(all_key_objs[k].notes)
       /\ \A t \in TileIds(k) :
            LET old == TileOf(k, t)
                new == all_key_objs'[k].tiles[t]
            IN  /\ old.rect.in_axes <=> (old.state = 1)
                /\ new.rect.in_axes <=> (new.state = 1)
                /\ (~old.rect.in_axes /\ new.rect.in_axes)
                     => (old.state = 0 /\ new.state = 1)
                /\ (old.rect.in_axes /\ ~new.rect.in_axes)
                     => (old.state = 1 /\ new.state = 2))

\* C20: during render a tile's rectangle is in the axes if and only if the
\* tile is ACTIVE; it is added once, on PENDING -> ACTIVE, and removed once,
\* on ACTIVE -> DONE, never removed without having been added and never
\* added twice; and the number of a key's tiles never changes.
C20_DrawnIffActive ==
  [][DrawnIffActive]_vars

\* After one frame, a tile that has just left the axes as DONE beside a tile
\* of the same key that has just entered them as ACTIVE.
C20_Witness ==
  /\ SomeFrameDone
  /\ frame >= 2
  /\ \E k \in KeyIds : \E t, u \in TileIds(k) :
       /\ Replayed(FreshTile(k, t), frame - 2).rect.in_axes
       /\ TileOf(k, t).state = 2 /\ ~TileOf(k, t).rect.in_axes
       /\ ~Replayed(FreshTile(k, u), frame - 2).rect.in_axes
       /\ TileOf(k, u).state = 1 /\ TileOf(k, u).rect.in_axes

====
